---- MODULE Spec2Model ----
(***************************************************************************)
(* Model of the two batch tracking scripts of supply-chain-tracking:       *)
(*   src/dhl_api.py    get_dhl_status, main                                *)
(*   src/fedex_api.py  get_fedex_access_token, get_fedex_status, main      *)
(* The HTTP servers and the process environment are the inputs: every      *)
(* network call draws its answer from a finite set of responses.           *)
(***************************************************************************)
EXTENDS Integers, Sequences, FiniteSets, TLC

\* Longest list of tracking documents explored.
MaxReqs == 3

\* The status code both lookups compare against.
HTTP_OK == 200

(***************************************************************************)
(* Python / JSON values.  Every value is a tagged record, so that values   *)
(* of different Python types can be compared.  JSON null is Python None.   *)
(***************************************************************************)
None == [t |-> "null"]
JStr(s) == [t |-> "str", s |-> s]
JNum(n) == [t |-> "num", n |-> n]
JList(xs) == [t |-> "list", items |-> xs]
JObj(f) == [t |-> "obj", kv |-> f]
EmptyDict == JObj([k \in {} |-> None])
Obj1(k, v) == JObj([x \in {k} |-> v])

\* bool(v) as Python computes it for `if status_data:` and `not access_token`.
Truthy(v) ==
    CASE v.t = "null" -> FALSE
      [] v.t = "str"  -> v.s # ""
      [] v.t = "num"  -> v.n # 0
      [] v.t = "list" -> Len(v.items) > 0
      [] v.t = "obj"  -> DOMAIN v.kv # {}

\* The outcome of evaluating an expression: a value, or a raised exception.
Return(v) == [exc |-> "none", val |-> v]
Raise(e) == [exc |-> e, val |-> None]
Then(r, F(_)) == IF r.exc = "none" THEN F(r.val) ELSE r

\* v.get(k, default): only a dict has .get.
dict_get(v, k, default) ==
    IF v.t = "obj"
    THEN Return(IF k \in DOMAIN v.kv THEN v.kv[k] ELSE default)
    ELSE Raise("AttributeError")

\* First character of the strings the responses use.
FirstChar(s) == IF s = "In transit" THEN "I" ELSE IF s = "Delivered" THEN "D" ELSE s

\* v[0]
index0(v) ==
    CASE v.t = "list" -> IF Len(v.items) > 0 THEN Return(v.items[1]) ELSE Raise("IndexError")
      [] v.t = "str"  -> IF v.s # "" THEN Return(JStr(FirstChar(v.s))) ELSE Raise("IndexError")
      [] v.t = "obj"  -> Raise("KeyError")
      [] OTHER        -> Raise("TypeError")

\* v[k] for a string key k
subscript(v, k) ==
    IF v.t = "obj"
    THEN IF k \in DOMAIN v.kv THEN Return(v.kv[k]) ELSE Raise("KeyError")
    ELSE Raise("TypeError")

\* The exceptions the extraction blocks catch.
Caught == {"KeyError", "IndexError", "TypeError"}

(***************************************************************************)
(* HTTP: what one call of requests.get / requests.post can produce.        *)
(***************************************************************************)
NoBody == [decodable |-> FALSE, json |-> None]
Json(v) == [decodable |-> TRUE, json |-> v]
\* requests raised instead of answering: kind is the exception class.
Failed(kind) == [kind |-> kind, status_code |-> 0, body |-> NoBody]
Answer(code, body) == [kind |-> "response", status_code |-> code, body |-> body]
NoResponse == Failed("unset")

\* response.json(): the parsed body, or JSONDecodeError.
response_json(resp) ==
    IF resp.body.decodable THEN Return(resp.body.json) ELSE Raise("JSONDecodeError")

(***************************************************************************)
(* src/fedex_api.py                                                        *)
(***************************************************************************)
\* get_fedex_access_token, lines 42-78, as a function of what the token
\* endpoint did.  Every requests exception and JSONDecodeError is caught;
\* nothing else is.
get_fedex_access_token(resp) ==
    IF resp.kind # "response" THEN Return(None)
    ELSE IF resp.status_code >= 400 /\ resp.status_code < 600 THEN Return(None)
    ELSE LET token_data == response_json(resp) IN
         IF token_data.exc # "none" THEN Return(None)
         ELSE Then(dict_get(token_data.val, "access_token", None), LAMBDA access_token:
              Then(dict_get(token_data.val, "expires_in", None), LAMBDA expires_in:
                   IF Truthy(access_token) THEN Return(access_token) ELSE Return(None)))

\* Mutant: the check written with `and`, so that one missing credential passes.
credentials_missing_both(client_id, client_secret) ==
    ~Truthy(client_id) /\ ~Truthy(client_secret)

\* `if not client_id or not client_secret`, line 97.
credentials_missing(client_id, client_secret) ==
    ~Truthy(client_id) \/ ~Truthy(client_secret)

\* The tracking call of get_fedex_status, lines 127-147: the value returned.
fedex_tracking_data(resp) ==
    IF resp.kind # "response" THEN None
    ELSE IF resp.status_code = HTTP_OK
         THEN LET tracking_data == response_json(resp) IN
              IF tracking_data.exc = "none" THEN tracking_data.val ELSE None
         ELSE None

\* track_result.get(party, {}).get("address", {}).get("countryCode", None)
country_code(track_result, party) ==
    Then(dict_get(track_result, party, EmptyDict), LAMBDA info:
    Then(dict_get(info, "address", EmptyDict), LAMBDA address:
         dict_get(address, "countryCode", None)))

\* Mutant: shipper and recipient paths exchanged.
fedex_fields_swapped(status_data) ==
    Then(dict_get(status_data, "output", EmptyDict), LAMBDA output:
    Then(dict_get(output, "completeTrackResults", JList(<<EmptyDict>>)), LAMBDA complete:
    Then(index0(complete), LAMBDA shipment:
    Then(dict_get(shipment, "trackResults", JList(<<EmptyDict>>)), LAMBDA results_list:
    Then(index0(results_list), LAMBDA track_result:
    Then(dict_get(track_result, "latestStatusDetail", EmptyDict), LAMBDA detail:
    Then(dict_get(detail, "description", None), LAMBDA status_desc:
    Then(country_code(track_result, "recipientInformation"), LAMBDA shipper_cc:
    Then(country_code(track_result, "shipperInformation"), LAMBDA consignee_cc:
         Return([status_description |-> status_desc,
                 shipper_countryCode |-> shipper_cc,
                 consignee_countryCode |-> consignee_cc]))))))))))

\* main, lines 172-176: the three extracted fields, or the exception raised.
fedex_fields(status_data) ==
    Then(dict_get(status_data, "output", EmptyDict), LAMBDA output:
    Then(dict_get(output, "completeTrackResults", JList(<<EmptyDict>>)), LAMBDA complete:
    Then(index0(complete), LAMBDA shipment:
    Then(dict_get(shipment, "trackResults", JList(<<EmptyDict>>)), LAMBDA results_list:
    Then(index0(results_list), LAMBDA track_result:
    Then(dict_get(track_result, "latestStatusDetail", EmptyDict), LAMBDA detail:
    Then(dict_get(detail, "description", None), LAMBDA status_desc:
    Then(country_code(track_result, "shipperInformation"), LAMBDA shipper_cc:
    Then(country_code(track_result, "recipientInformation"), LAMBDA consignee_cc:
         Return([status_description |-> status_desc,
                 shipper_countryCode |-> shipper_cc,
                 consignee_countryCode |-> consignee_cc]))))))))))

\* main, lines 177-182: the dict appended to results.
fedex_row(tracking_id, status_data) ==
    Then(fedex_fields(status_data), LAMBDA f:
         Return([tracking_id |-> tracking_id,
                 status_description |-> f.status_description,
                 shipper_countryCode |-> f.shipper_countryCode,
                 consignee_countryCode |-> f.consignee_countryCode]))

(***************************************************************************)
(* src/dhl_api.py                                                          *)
(***************************************************************************)
\* Mutant: any 2xx status accepted (response.ok instead of == 200).
dhl_tracking_data_any2xx(resp) ==
    IF resp.kind # "response" THEN None
    ELSE IF resp.status_code >= 200 /\ resp.status_code < 300
         THEN LET tracking_data == response_json(resp) IN
              IF tracking_data.exc = "none" THEN tracking_data.val ELSE None
         ELSE None

\* get_dhl_status, lines 25-47: the value returned.
dhl_tracking_data(resp) ==
    IF resp.kind # "response" THEN None
    ELSE IF resp.status_code = HTTP_OK
         THEN LET tracking_data == response_json(resp) IN
              IF tracking_data.exc = "none" THEN tracking_data.val ELSE None
         ELSE None

\* main, lines 71-80: shipment = status_data["shipments"][0], then the dict
\* appended to results.  The three field extractions are commented out.
dhl_row(tracking_id, status_data) ==
    Then(subscript(status_data, "shipments"), LAMBDA shipments:
    Then(index0(shipments), LAMBDA shipment:
         Return([tracking_id |-> tracking_id])))

\* Mutant: results.insert(0, row).
append_row_front(results, row) == <<row>> \o results

\* results.append(row), dhl line 75 and fedex line 177.
append_row(results, row) == Append(results, row)

(***************************************************************************)
(* The inputs: tracking documents, environment, and server answers.        *)
(***************************************************************************)
\* tracking_documents of the two mains (dhl lines 57-60, fedex lines 158-161).
TrackingIds(c) ==
    IF c = "dhl" THEN {"8917799995", "8162797823"}
    ELSE {"122816215025810", "020207021381215"}

SeqsUpTo(S, n) == UNION {[1..k -> S] : k \in 0..n}

Documents(c) == SeqsUpTo([tracking_id : TrackingIds(c)], MaxReqs)

\* os.environ.get(name): unset, set to the empty string, or set.
EnvValues == {None, JStr(""), JStr("key")}

\* Bodies the OAuth endpoint may send.
GoodToken == JObj([k \in {"access_token", "expires_in"} |->
                      IF k = "access_token" THEN JStr("tok") ELSE JNum(3599)])
TokenBodies ==
    { GoodToken,
      Obj1("access_token", JStr("tok")),
      Obj1("access_token", JStr("")),
      Obj1("access_token", None),
      Obj1("error", JStr("invalid_client")),
      EmptyDict, JList(<<>>), JStr("s"), None }

TokenResponses ==
    { Failed("ConnectionError"), Failed("Timeout"), Failed("RequestException"),
      Answer(401, Json(Obj1("error", JStr("invalid_client")))),
      Answer(500, NoBody), Answer(HTTP_OK, NoBody), Answer(201, Json(GoodToken)) }
    \cup { Answer(HTTP_OK, Json(b)) : b \in TokenBodies }

\* Bodies the FedEx tracking endpoint may send.
Address(cc) == Obj1("address", Obj1("countryCode", JStr(cc)))
TrackKeys == {"latestStatusDetail", "shipperInformation", "recipientInformation"}
TrackResultOf(keys) ==
    JObj([k \in keys |->
            IF k = "latestStatusDetail" THEN Obj1("description", JStr("In transit"))
            ELSE IF k = "shipperInformation" THEN Address("US")
            ELSE Address("DE")])
WithField(track_result, k, v) ==
    JObj([x \in DOMAIN track_result.kv |-> IF x = k THEN v ELSE track_result.kv[x]])
InOutput(complete) == Obj1("output", Obj1("completeTrackResults", complete))
FedexBodyOf(track_result) ==
    InOutput(JList(<<Obj1("trackResults", JList(<<track_result>>))>>))

FedexWellFormed == FedexBodyOf(TrackResultOf(TrackKeys))
FedexDelivered ==
    FedexBodyOf(JObj([k \in TrackKeys |->
        IF k = "latestStatusDetail" THEN Obj1("description", JStr("Delivered"))
        ELSE IF k = "shipperInformation" THEN Address("DE")
        ELSE Address("US")]))

\* Objects in which some expected key is missing and every key present has
\* the expected type.
FedexPartial ==
    { FedexBodyOf(TrackResultOf(TrackKeys \ {k})) : k \in TrackKeys }
    \cup { FedexBodyOf(WithField(TrackResultOf(TrackKeys), "latestStatusDetail", EmptyDict)),
           FedexBodyOf(WithField(TrackResultOf(TrackKeys), "shipperInformation", EmptyDict)),
           FedexBodyOf(WithField(TrackResultOf(TrackKeys), "recipientInformation",
                                 Obj1("address", EmptyDict))),
           FedexBodyOf(EmptyDict),
           InOutput(JList(<<EmptyDict>>)),
           Obj1("output", EmptyDict),
           Obj1("transactionId", JStr("t")),
           EmptyDict }

\* Bodies in which a navigation step meets a value of the wrong type or an
\* empty array.
FedexMalformed ==
    { Obj1("output", None), Obj1("output", JStr("s")), Obj1("output", JList(<<>>)),
      InOutput(None), InOutput(JList(<<>>)), InOutput(EmptyDict),
      InOutput(JList(<<None>>)), InOutput(JStr("s")),
      InOutput(JList(<<Obj1("trackResults", JList(<<>>))>>)),
      InOutput(JList(<<Obj1("trackResults", None)>>)),
      InOutput(JList(<<Obj1("trackResults", JStr("s"))>>)),
      FedexBodyOf(WithField(TrackResultOf(TrackKeys), "latestStatusDetail", None)),
      FedexBodyOf(WithField(TrackResultOf(TrackKeys), "shipperInformation", JStr("s"))),
      FedexBodyOf(WithField(TrackResultOf(TrackKeys), "recipientInformation",
                            Obj1("address", JList(<<>>)))),
      JList(<<EmptyDict>>), JList(<<>>), JStr("s"), JStr(""), JNum(0), None }

FedexBodies == {FedexWellFormed, FedexDelivered} \cup FedexPartial \cup FedexMalformed

FedexTrackResponses ==
    { Failed("ConnectionError"), Failed("Timeout"),
      Answer(404, Json(Obj1("errors", JList(<<>>)))), Answer(500, NoBody),
      Answer(201, Json(FedexWellFormed)), Answer(HTTP_OK, NoBody) }
    \cup { Answer(HTTP_OK, Json(b)) : b \in FedexBodies }

\* Bodies the DHL tracking endpoint may send.
DhlBodyOf(shipments) == Obj1("shipments", shipments)
DhlShipment(d) == Obj1("status", Obj1("description", JStr(d)))
DhlWellFormed == DhlBodyOf(JList(<<DhlShipment("Delivered")>>))
DhlBodies ==
    { DhlWellFormed, DhlBodyOf(JList(<<DhlShipment("In transit")>>)),
      DhlBodyOf(JList(<<EmptyDict>>)), DhlBodyOf(JList(<<>>)), DhlBodyOf(None),
      DhlBodyOf(EmptyDict), DhlBodyOf(JStr("s")), DhlBodyOf(JStr("")),
      Obj1("title", JStr("No result found")), EmptyDict,
      JList(<<DhlShipment("Delivered")>>), JList(<<>>), JStr("s"), JNum(0), None }

DhlResponses ==
    { Failed("ConnectionError"), Failed("Timeout"),
      Answer(404, Json(Obj1("title", JStr("No result found")))), Answer(500, NoBody),
      Answer(201, Json(DhlWellFormed)), Answer(HTTP_OK, NoBody) }
    \cup { Answer(HTTP_OK, Json(b)) : b \in DhlBodies }

(***************************************************************************)
(* State.                                                                  *)
(***************************************************************************)
VARIABLES
    carrier,             \* which script runs: "dhl" or "fedex"
    tracking_documents,  \* main: the input list
    env,                 \* os.environ: FEDEX_CLIENT_ID, FEDEX_CLIENT_SECRET
    idx,                 \* main: position of the for loop (documents taken so far)
    tracking_id,         \* main: doc["tracking_id"] of the current iteration
    access_token,        \* get_fedex_status: the token of the current lookup
    response,            \* the answer to the last tracking call
    status_data,         \* main: what the last lookup returned
    results,             \* main: the rows collected so far
    printed,             \* the summaries printed so far
    pc,                  \* where the script is
    exc,                 \* the exception that ended the script, "none" otherwise
    log,                 \* history: calls, network requests, returns and sleeps
    src,                 \* history: src[k] is the iteration that appended results[k]
    absent               \* history: the iterations whose lookup returned None

vars == <<carrier, tracking_documents, env, idx, tracking_id, access_token, response,
          status_data, results, printed, pc, exc, log, src, absent>>

Init ==
    /\ carrier \in {"dhl", "fedex"}
    /\ tracking_documents \in Documents(carrier)
    /\ env \in IF carrier = "fedex"
               THEN [FEDEX_CLIENT_ID : EnvValues, FEDEX_CLIENT_SECRET : EnvValues]
               ELSE {[FEDEX_CLIENT_ID |-> None, FEDEX_CLIENT_SECRET |-> None]}
    /\ idx = 0
    /\ tracking_id = ""
    /\ access_token = None
    /\ response = NoResponse
    /\ status_data = None
    /\ results = <<>>
    /\ printed = <<>>
    /\ pc = "loop"
    /\ exc = "none"
    /\ log = <<>>
    /\ src = <<>>
    /\ absent = {}

\* `return value` of a lookup, assigned to status_data in main.
Returned(value) ==
    /\ status_data' = value
    /\ absent' = IF value = None THEN absent \cup {idx} ELSE absent
    /\ pc' = "extract"

(***************************************************************************)
(* src/fedex_api.py: main and get_fedex_status, step by step.              *)
(***************************************************************************)
\* The for statement takes the next document and calls get_fedex_status.
FedexLoopNext ==
    /\ carrier = "fedex" /\ pc = "loop" /\ idx < Len(tracking_documents)
    /\ idx' = idx + 1
    /\ tracking_id' = tracking_documents[idx + 1].tracking_id
    /\ log' = Append(log, "call")
    /\ pc' = "creds"
    /\ UNCHANGED <<carrier, tracking_documents, env, access_token, response,
                   status_data, results, printed, exc, src, absent>>

\* Lines 94-99: the credentials check.
FedexCheckCreds ==
    /\ carrier = "fedex" /\ pc = "creds"
    /\ IF credentials_missing(env.FEDEX_CLIENT_ID, env.FEDEX_CLIENT_SECRET)
       THEN /\ Returned(None)
            /\ log' = Append(log, "return")
       ELSE /\ pc' = "token"
            /\ UNCHANGED <<status_data, absent, log>>
    /\ UNCHANGED <<carrier, tracking_documents, env, idx, tracking_id, access_token,
                   response, results, printed, exc, src>>

\* Lines 101-105: the token request and the check of its result.
FedexTokenRequest ==
    /\ carrier = "fedex" /\ pc = "token"
    /\ \E resp \in TokenResponses :
         LET r == get_fedex_access_token(resp) IN
         IF r.exc # "none"
         THEN /\ pc' = "crashed"
              /\ exc' = r.exc
              /\ log' = Append(log, "token")
              /\ UNCHANGED <<access_token, status_data, absent>>
         ELSE /\ access_token' = r.val
              /\ exc' = exc
              /\ IF ~Truthy(r.val)
                 THEN /\ Returned(None)
                      /\ log' = log \o <<"token", "return">>
                 ELSE /\ pc' = "track"
                      /\ log' = Append(log, "token")
                      /\ UNCHANGED <<status_data, absent>>
    /\ UNCHANGED <<carrier, tracking_documents, env, idx, tracking_id, response,
                   results, printed, src>>

\* Lines 107-147: the tracking request and the value returned.
FedexTrackRequest ==
    /\ carrier = "fedex" /\ pc = "track"
    /\ \E resp \in FedexTrackResponses :
         /\ response' = resp
         /\ Returned(fedex_tracking_data(resp))
    /\ log' = log \o <<"track", "return">>
    /\ UNCHANGED <<carrier, tracking_documents, env, idx, tracking_id, access_token,
                   results, printed, exc, src>>

\* Lines 169-184: field extraction and the append.
FedexExtract ==
    /\ carrier = "fedex" /\ pc = "extract"
    /\ IF ~Truthy(status_data)
       THEN /\ pc' = "sleep"
            /\ UNCHANGED <<results, src, exc>>
       ELSE LET r == fedex_row(tracking_id, status_data) IN
            IF r.exc = "none"
            THEN /\ results' = append_row(results, r.val)
                 /\ src' = Append(src, idx)
                 /\ pc' = "sleep"
                 /\ exc' = exc
            ELSE IF r.exc \in Caught
            THEN /\ pc' = "sleep"
                 /\ UNCHANGED <<results, src, exc>>
            ELSE /\ pc' = "crashed"
                 /\ exc' = r.exc
                 /\ UNCHANGED <<results, src>>
    /\ UNCHANGED <<carrier, tracking_documents, env, idx, tracking_id, access_token,
                   response, status_data, printed, log, absent>>

\* Line 185: time.sleep(5).
FedexSleep ==
    /\ carrier = "fedex" /\ pc = "sleep"
    /\ log' = Append(log, "sleep")
    /\ pc' = "loop"
    /\ UNCHANGED <<carrier, tracking_documents, env, idx, tracking_id, access_token,
                   response, status_data, results, printed, exc, src, absent>>

\* Lines 189-191: the summary is built from results and printed.
FedexSummary ==
    /\ carrier = "fedex" /\ pc = "loop" /\ idx = Len(tracking_documents)
    /\ printed' = Append(printed, results)
    /\ pc' = "done"
    /\ UNCHANGED <<carrier, tracking_documents, env, idx, tracking_id, access_token,
                   response, status_data, results, exc, log, src, absent>>

(***************************************************************************)
(* src/dhl_api.py: main and get_dhl_status, step by step.                  *)
(***************************************************************************)
\* The for statement takes the next document and calls get_dhl_status.
DhlLoopNext ==
    /\ carrier = "dhl" /\ pc = "loop" /\ idx < Len(tracking_documents)
    /\ idx' = idx + 1
    /\ tracking_id' = tracking_documents[idx + 1].tracking_id
    /\ log' = Append(log, "call")
    /\ pc' = "track"
    /\ UNCHANGED <<carrier, tracking_documents, env, access_token, response,
                   status_data, results, printed, exc, src, absent>>

\* Lines 25-47: the tracking request and the value returned.
DhlRequest ==
    /\ carrier = "dhl" /\ pc = "track"
    /\ \E resp \in DhlResponses :
         /\ response' = resp
         /\ Returned(dhl_tracking_data(resp))
    /\ log' = log \o <<"track", "return">>
    /\ UNCHANGED <<carrier, tracking_documents, env, idx, tracking_id, access_token,
                   results, printed, exc, src>>

\* Mutant: the sleep moved inside `if status_data:`, so that a failed lookup
\* goes straight to the next request.
DhlExtract_sleepOnDataOnly ==
    /\ carrier = "dhl" /\ pc = "extract"
    /\ IF ~Truthy(status_data)
       THEN /\ pc' = "loop"
            /\ UNCHANGED <<results, src, exc>>
       ELSE LET r == dhl_row(tracking_id, status_data) IN
            IF r.exc = "none"
            THEN /\ results' = append_row(results, r.val)
                 /\ src' = Append(src, idx)
                 /\ pc' = "sleep"
                 /\ exc' = exc
            ELSE IF r.exc \in Caught
            THEN /\ pc' = "sleep"
                 /\ UNCHANGED <<results, src, exc>>
            ELSE /\ pc' = "crashed"
                 /\ exc' = r.exc
                 /\ UNCHANGED <<results, src>>
    /\ UNCHANGED <<carrier, tracking_documents, env, idx, tracking_id, access_token,
                   response, status_data, printed, log, absent>>

\* Lines 68-82: field extraction and the append.
DhlExtract ==
    /\ carrier = "dhl" /\ pc = "extract"
    /\ IF ~Truthy(status_data)
       THEN /\ pc' = "sleep"
            /\ UNCHANGED <<results, src, exc>>
       ELSE LET r == dhl_row(tracking_id, status_data) IN
            IF r.exc = "none"
            THEN /\ results' = append_row(results, r.val)
                 /\ src' = Append(src, idx)
                 /\ pc' = "sleep"
                 /\ exc' = exc
            ELSE IF r.exc \in Caught
            THEN /\ pc' = "sleep"
                 /\ UNCHANGED <<results, src, exc>>
            ELSE /\ pc' = "crashed"
                 /\ exc' = r.exc
                 /\ UNCHANGED <<results, src>>
    /\ UNCHANGED <<carrier, tracking_documents, env, idx, tracking_id, access_token,
                   response, status_data, printed, log, absent>>

\* Line 85: time.sleep(5).
DhlSleep ==
    /\ carrier = "dhl" /\ pc = "sleep"
    /\ log' = Append(log, "sleep")
    /\ pc' = "loop"
    /\ UNCHANGED <<carrier, tracking_documents, env, idx, tracking_id, access_token,
                   response, status_data, results, printed, exc, src, absent>>

\* Lines 89-91: the summary is built from results and printed.
DhlSummary ==
    /\ carrier = "dhl" /\ pc = "loop" /\ idx = Len(tracking_documents)
    /\ printed' = Append(printed, results)
    /\ pc' = "done"
    /\ UNCHANGED <<carrier, tracking_documents, env, idx, tracking_id, access_token,
                   response, status_data, results, exc, log, src, absent>>

Next ==
    \/ FedexLoopNext \/ FedexCheckCreds \/ FedexTokenRequest \/ FedexTrackRequest
    \/ FedexExtract \/ FedexSleep \/ FedexSummary
    \/ DhlLoopNext \/ DhlRequest \/ DhlExtract \/ DhlSleep \/ DhlSummary

Spec == Init /\ [][Next]_vars

(***************************************************************************)
(* Vocabulary of the properties.                                           *)
(***************************************************************************)
Last(seq) == seq[Len(seq)]
Count(seq, e) == Cardinality({p \in 1..Len(seq) : seq[p] = e})
RowsOf(i) == {k \in 1..Len(src) : src[k] = i}

\* The lookup of iteration idx has returned and it issued a tracking call.
TrackedNow == Len(log) >= 2 /\ log[Len(log) - 1] = "track" /\ Last(log) = "return"
\* That tracking call answered HTTP 200 with a decodable body.
RespOK ==
    /\ response.kind = "response"
    /\ response.status_code = HTTP_OK
    /\ response.body.decodable
\* The extraction block of iteration idx has run on that answer.
Extracted == TrackedNow /\ RespOK /\ pc \in {"sleep", "crashed"}

\* Navigation of a JSON value along a path of keys and "[0]" steps, as the
\* interface documents it (output.completeTrackResults[0].trackResults[0]...).
NotFound == [found |-> FALSE, val |-> None]
RECURSIVE Nav(_, _)
Nav(v, path) ==
    IF path = <<>> THEN [found |-> TRUE, val |-> v]
    ELSE IF Head(path) = "[0]"
         THEN IF v.t = "list" /\ Len(v.items) > 0
              THEN Nav(v.items[1], Tail(path)) ELSE NotFound
         ELSE IF v.t = "obj" /\ Head(path) \in DOMAIN v.kv
              THEN Nav(v.kv[Head(path)], Tail(path)) ELSE NotFound

TrackResultPath == <<"output", "completeTrackResults", "[0]", "trackResults", "[0]">>
DescPath == TrackResultPath \o <<"latestStatusDetail", "description">>
ShipperPath == TrackResultPath \o <<"shipperInformation", "address", "countryCode">>
ConsigneePath == TrackResultPath \o <<"recipientInformation", "address", "countryCode">>
DhlDescPath == <<"shipments", "[0]", "status", "description">>

\* The row the interface promises for a body: each field is the value at its
\* path, absent (None) where the path does not exist.
PromisedRow(id, body) ==
    [tracking_id |-> id,
     status_description |-> Nav(body, DescPath).val,
     shipper_countryCode |-> Nav(body, ShipperPath).val,
     consignee_countryCode |-> Nav(body, ConsigneePath).val]

CurrentId == tracking_documents[idx].tracking_id

\* ---------------------------------------------------------------- C1
\* C1: the rows are an order-preserving subsequence of the input: every row
\* comes from exactly one input request and carries its id, rows are in input
\* order, no request has two rows, and a request whose lookup returned None
\* has none.  The printed summary is that list.
RowsAreSubsequence(rows) ==
    /\ Len(rows) = Len(src)
    /\ \A k \in 1..Len(rows) :
         /\ src[k] \in 1..Len(tracking_documents)
         /\ rows[k].tracking_id = tracking_documents[src[k]].tracking_id
         /\ src[k] \notin absent
    /\ \A j, k \in 1..Len(rows) : j < k => src[j] < src[k]

C1_RowsPreserveInputOrder ==
    /\ RowsAreSubsequence(results)
    /\ \A n \in 1..Len(printed) : printed[n] = results

\* Inputs [A, B, C] with B failing gave rows [A, C].
C1_Witness ==
    /\ pc = "done" /\ Len(tracking_documents) = 3
    /\ absent = {2} /\ src = <<1, 3>>
    /\ tracking_documents[1] # tracking_documents[3]
    /\ printed = <<results>>

\* ---------------------------------------------------------------- C2
\* C2: no partial-batch abort: once a lookup has failed (returned None), the
\* script does not end before every request has been looked up, and when it
\* ends the summary has been printed exactly once, after the last request.
Ended == pc \in {"done", "crashed"}
C2_NoPartialBatchAbort ==
    /\ (absent # {} /\ Ended) =>
          /\ Count(log, "call") = Len(tracking_documents)
          /\ Len(printed) = 1
    /\ ~Ended => printed = <<>>

\* ---------------------------------------------------------------- C3
\* C3: for any HTTP-200 JSON answer, the extraction block ends with a row or
\* with no row, and the loop goes on: no error leaves the batch loop.
C3_ExtractionNeverRaises ==
    (TrackedNow /\ RespOK /\ pc # "extract") => (pc = "sleep" /\ exc = "none")

\* ---------------------------------------------------------------- C4
\* C4: with FEDEX_CLIENT_ID or FEDEX_CLIENT_SECRET unset or empty, every
\* lookup returns None and neither the token request nor the tracking
\* request is ever issued.
Unset(v) == v = None \/ v = JStr("")
NoCredentials ==
    carrier = "fedex" /\ (Unset(env.FEDEX_CLIENT_ID) \/ Unset(env.FEDEX_CLIENT_SECRET))

C4_NoNetworkWithoutCredentials ==
    NoCredentials =>
        /\ Count(log, "token") = 0 /\ Count(log, "track") = 0
        /\ pc \notin {"token", "track"}
        /\ pc \in {"extract", "sleep"} => (status_data = None /\ idx \in absent)
        /\ pc = "loop" => absent = 1..idx

C4_Witness ==
    /\ NoCredentials /\ ~Unset(env.FEDEX_CLIENT_ID)
    /\ pc = "done" /\ idx = 2 /\ absent = {1, 2} /\ results = <<>>

\* ---------------------------------------------------------------- C5
\* C5: a failed token acquisition makes the lookup return None with no
\* tracking request and no second token request, leaves no row, and the
\* batch goes on; a tracking request follows a token obtained in the same
\* lookup.
SinceCall ==
    LET calls == {p \in 1..Len(log) : log[p] = "call"} IN
    IF calls = {} THEN <<>>
    ELSE SubSeq(log, CHOOSE p \in calls : \A q \in calls : q <= p, Len(log))

C5_TokenFailureSkipsTracking ==
    carrier = "fedex" =>
        /\ pc = "track" => (Truthy(access_token) /\ Last(log) = "token")
        /\ Count(SinceCall, "token") <= 1
        /\ Count(SinceCall, "track") = 1 => Count(SinceCall, "token") = 1
        /\ (Len(log) > 0 /\ Last(log) = "token") => pc = "track"
        /\ (Len(log) >= 2 /\ Last(log) = "return" /\ log[Len(log) - 1] = "token") =>
              /\ pc \in {"extract", "sleep"}
              /\ status_data = None
              /\ RowsOf(idx) = {}

\* ---------------------------------------------------------------- C6
\* C6: for both carriers the lookup returns the parsed body only when its
\* tracking call answered HTTP 200 with a decodable body; otherwise it
\* returns None and the request gets no row.
C6_BodyOnlyOnHttp200 ==
    pc \in {"extract", "sleep"} =>
        /\ (TrackedNow /\ RespOK) => status_data = response.body.json
        /\ ~(TrackedNow /\ RespOK) =>
              /\ status_data = None
              /\ idx \in absent
              /\ RowsOf(idx) = {}

\* A 2xx answer other than 200 came after an earlier request got its row.
C6_Witness ==
    /\ pc = "sleep" /\ TrackedNow
    /\ response.kind = "response" /\ response.status_code = 201
    /\ response.body.decodable
    /\ idx = 2 /\ src = <<1>> /\ status_data = None

\* ---------------------------------------------------------------- C7
\* C7: a FedEx lookup that succeeds with a well-formed answer appends exactly
\* one row, with the input id and the three values of the answer.
FedexIsWellFormed(body) ==
    Nav(body, DescPath).found /\ Nav(body, ShipperPath).found
        /\ Nav(body, ConsigneePath).found

C7_FedexWellFormedRow ==
    (carrier = "fedex" /\ Extracted /\ FedexIsWellFormed(response.body.json)) =>
        /\ pc = "sleep"
        /\ Cardinality(RowsOf(idx)) = 1
        /\ Last(src) = idx
        /\ Last(results) = PromisedRow(CurrentId, response.body.json)

\* "122816215025810" with description "In transit".
C7_Witness ==
    /\ carrier = "fedex" /\ Extracted /\ FedexIsWellFormed(response.body.json)
    /\ CurrentId = "122816215025810"
    /\ Len(results) = 2
    /\ Last(results).status_description = JStr("In transit")
    /\ Last(results).shipper_countryCode = JStr("US")
    /\ Last(results).consignee_countryCode = JStr("DE")

\* ---------------------------------------------------------------- C8
\* C8: a DHL lookup answered with HTTP 200 and shipments[0].status.description
\* = d gives a row with the input id and status_description = d.
C8_DhlStatusDescription ==
    (carrier = "dhl" /\ Extracted /\ Nav(response.body.json, DhlDescPath).found) =>
        /\ pc = "sleep"
        /\ Cardinality(RowsOf(idx)) = 1
        /\ Last(results).tracking_id = CurrentId
        /\ "status_description" \in DOMAIN Last(results)
        /\ Last(results).status_description = Nav(response.body.json, DhlDescPath).val

\* ---------------------------------------------------------------- C9
\* C9: calls, returns and sleeps alternate strictly: a lookup is called first
\* or directly after a sleep, a sleep comes directly after a lookup returned
\* (whatever it returned and whatever the extraction did), and every network
\* request lies inside a lookup.  So exactly one sleep separates the end of
\* one lookup from the start of the next.
C9_OneDelayBetweenLookups ==
    /\ \A p \in 1..Len(log) :
         /\ log[p] = "call" => (p = 1 \/ log[p - 1] = "sleep")
         /\ log[p] = "sleep" => (p > 1 /\ log[p - 1] = "return")
         /\ log[p] = "return" => (p > 1 /\ log[p - 1] \in {"call", "token", "track"})
         /\ log[p] = "token" => (p > 1 /\ log[p - 1] = "call")
         /\ log[p] = "track" => (p > 1 /\ log[p - 1] \in {"call", "token"})
    /\ pc = "loop" => (log = <<>> \/ Last(log) = "sleep")
    /\ pc = "sleep" => Last(log) = "return"
    /\ Count(log, "call") = idx
    /\ Count(log, "sleep") \in {idx - 1, idx}

\* Three requests: one got a row, one failed in lookup, one failed in
\* extraction; three sleeps.
C9_Witness ==
    /\ pc = "done" /\ idx = 3
    /\ Len(src) = 1 /\ Cardinality(absent) = 1
    /\ Count(log, "sleep") = 3

\* ---------------------------------------------------------------- C10
\* C10: for a HTTP-200 JSON object that lacks some of the expected keys (the
\* empty object included) exactly one row is appended, with the input id,
\* and only the fields under the missing key are absent.
C10_MissingKeyKeepsRow ==
    (carrier = "fedex" /\ Extracted /\ response.body.json \in FedexPartial) =>
        /\ pc = "sleep"
        /\ Cardinality(RowsOf(idx)) = 1
        /\ Last(src) = idx
        /\ Last(results) = PromisedRow(CurrentId, response.body.json)

====
